---- MODULE Spec2Model ----
(***************************************************************************)
(* A model of the benchmark scraper and comparison engine:                 *)
(*   src/benchmarks/runner.py   BenchmarkRunner (compare, compare_model)   *)
(*   src/scraper/hf_scraper.py  HuggingFaceScraper (extraction, parsing)   *)
(* Texts are sequences of one-character strings, so that stripping, case   *)
(* folding, containment and number parsing are computed character by       *)
(* character as the Python code does.                                      *)
(***************************************************************************)
EXTENDS Integers, Sequences, FiniteSets, TLC

VARIABLES
    data_dir,      \* the data/ directory: file name -> NoFile or the "benchmarks" entries
    pc,            \* position of the running call: "idle" or the name of the loop it is in
    model_id,      \* compare_model: its model_id argument
    tasks,         \* compare_model: the task list iterated (after the default is applied)
    reported,      \* compare_model: the mapping returned by load_reported_benchmarks
    comparisons,   \* compare_model: the local list being built
    idx,           \* compare_model: index of the next task of the for loop
    calls,         \* the run_benchmark calls awaited so far by the current call, in order
    args,          \* the arguments of a directly called function
    result,        \* the value returned by the last finished call
    soup,          \* extract_benchmarks: the parsed document
    rows,          \* extract_benchmarks: the rows its loops visit, in order
    row,           \* extract_benchmarks: index of the next row visited
    benchmarks,    \* extract_benchmarks: the local list being built
    matched,       \* extract_benchmarks: for each record, the index of the pattern
                   \* the inner loop stood at when it appended the record
    extracted,     \* extract_benchmarks: the calls that returned, in order, each
                   \* with its document and the list it returned
    batch_idx,     \* batch: index of the next model id of the loop
    results,       \* batch: the local list of result entries
    attempts,      \* batch: the get_model_info calls made so far and how each ended
    output_file    \* batch: the output file

runnerVars == <<model_id, tasks, reported, comparisons, idx, calls>>
scraperVars == <<soup, rows, row, benchmarks, matched, extracted>>
batchVars == <<batch_idx, results, attempts, output_file>>
vars == <<data_dir, pc, args, result, runnerVars, scraperVars, batchVars>>

(***************************************************************************)
(* Python values                                                           *)
(***************************************************************************)
None == "None"
\* A file of data/: absent, or present with the entries of its "benchmarks" array.
NoFile == [exists |-> FALSE, benchmarks |-> <<>>]
File(entries) == [exists |-> TRUE, benchmarks |-> entries]
\* The tasks argument of compare_model: None (the default) or a list.
NoTasks == [is_none |-> TRUE, list |-> <<>>]
TaskList(l) == [is_none |-> FALSE, list |-> l]

\* Texts used as identifiers and task names.
t_mmlu == <<"m","m","l","u">>
t_humaneval == <<"h","u","m","a","n","e","v","a","l">>
t_mbpp == <<"m","b","p","p">>
t_gsm8k == <<"g","s","m","8","k">>
t_mmlu_5shot == <<"m","m","l","u"," ","(","5","-","s","h","o","t",")">>

(***************************************************************************)
(* Python str operations, on texts as sequences of characters              *)
(***************************************************************************)
LowerChars == <<"a","b","c","d","e","f","g","h","i","j","k","l","m",
                "n","o","p","q","r","s","t","u","v","w","x","y","z">>
UpperChars == <<"A","B","C","D","E","F","G","H","I","J","K","L","M",
                "N","O","P","Q","R","S","T","U","V","W","X","Y","Z">>
DigitChars == <<"0","1","2","3","4","5","6","7","8","9">>

IndexIn(c, chars) ==
    IF \E i \in DOMAIN chars : chars[i] = c
    THEN CHOOSE i \in DOMAIN chars : chars[i] = c
    ELSE 0

LowerChar(c) == LET i == IndexIn(c, UpperChars) IN IF i = 0 THEN c ELSE LowerChars[i]
UpperChar(c) == LET i == IndexIn(c, LowerChars) IN IF i = 0 THEN c ELSE UpperChars[i]

\* str.lower(), str.upper()
Lower(text) == [i \in DOMAIN text |-> LowerChar(text[i])]
Upper(text) == [i \in DOMAIN text |-> UpperChar(text[i])]

IsSpace(c) == c \in {" ", "\t", "\n", "\r"}
IsDigit(c) == IndexIn(c, DigitChars) # 0
DigitVal(c) == IndexIn(c, DigitChars) - 1

\* str.strip()
RECURSIVE LStrip(_)
LStrip(text) ==
    IF text # <<>> /\ IsSpace(Head(text)) THEN LStrip(Tail(text)) ELSE text

RECURSIVE RStrip(_)
RStrip(text) ==
    IF text # <<>> /\ IsSpace(text[Len(text)])
    THEN RStrip(SubSeq(text, 1, Len(text) - 1))
    ELSE text

Strip(text) == RStrip(LStrip(text))

\* "sub in text"
Contains(text, sub) ==
    \E i \in 0..(Len(text) - Len(sub)) : SubSeq(text, i + 1, i + Len(sub)) = sub

\* str.replace(old, new) for one-character old and any new text.
RECURSIVE Replace(_, _, _)
Replace(text, old, new) ==
    IF text = <<>> THEN <<>>
    ELSE (IF Head(text) = old THEN new ELSE <<Head(text)>>) \o Replace(Tail(text), old, new)

(***************************************************************************)
(* Natural numbers of any size, as sequences of bits, most significant     *)
(* first and without leading zeros (0 is the empty sequence)               *)
(***************************************************************************)
RECURSIVE BitsOfNat(_)
BitsOfNat(n) == IF n = 0 THEN <<>> ELSE Append(BitsOfNat(n \div 2), n % 2)

RECURSIVE NatOfBits(_)
NatOfBits(b) ==
    IF b = <<>> THEN 0 ELSE 2 * NatOfBits(SubSeq(b, 1, Len(b) - 1)) + b[Len(b)]

\* b without its leading zeros
Canon(b) ==
    IF \A i \in DOMAIN b : b[i] = 0 THEN <<>>
    ELSE LET first == CHOOSE i \in DOMAIN b :
                         b[i] = 1 /\ \A j \in 1..(i - 1) : b[j] = 0
         IN  SubSeq(b, first, Len(b))

Zeros(n) == [i \in 1..n |-> 0]

\* The low Len(b) bits and the carry of b * c + a, for 0 <= a <= c < 2^30; the
\* low half of b is multiplied first and its carry (never negative) goes into
\* the high half.
RECURSIVE MulAddCarry(_, _, _)
MulAddCarry(b, c, a) ==
    IF b = <<>> THEN [bits |-> <<>>, carry |-> a]
    ELSE IF Len(b) = 1
    THEN LET t == b[1] * c + a IN [bits |-> <<t % 2>>, carry |-> t \div 2]
    ELSE LET h == Len(b) \div 2
             lo == MulAddCarry(SubSeq(b, h + 1, Len(b)), c, a)
         IN  IF lo.carry < 0 THEN lo
             ELSE LET hi == MulAddCarry(SubSeq(b, 1, h), c, lo.carry)
                  IN  [bits |-> hi.bits \o lo.bits, carry |-> hi.carry]

\* b * c + a
MulAdd(b, c, a) ==
    LET r == MulAddCarry(b, c, a) IN Canon(BitsOfNat(r.carry) \o r.bits)

\* Long division of b by c (0 < c < 2^30) with incoming remainder r: the
\* quotient bits (as many as b has) and the remainder (never negative); the high
\* half of b is divided first and its remainder goes into the low half.
RECURSIVE DivRemFrom(_, _, _)
DivRemFrom(b, c, r) ==
    IF b = <<>> THEN [q |-> <<>>, r |-> r]
    ELSE IF Len(b) = 1
    THEN LET t == 2 * r + b[1] IN [q |-> <<t \div c>>, r |-> t % c]
    ELSE LET h == Len(b) \div 2
             hi == DivRemFrom(SubSeq(b, 1, h), c, r)
         IN  IF hi.r < 0 THEN hi
             ELSE LET lo == DivRemFrom(SubSeq(b, h + 1, Len(b)), c, hi.r)
                  IN  [q |-> hi.q \o lo.q, r |-> lo.r]

DivRem(b, c) == DivRemFrom(b, c, 0)

Pow10(k) == CASE k = 0 -> 1 [] k = 1 -> 10 [] k = 2 -> 100 [] k = 3 -> 1000
              [] k = 4 -> 10000 [] k = 5 -> 100000 [] k = 6 -> 1000000
              [] k = 7 -> 10000000 [] k = 8 -> 100000000 [] k = 9 -> 1000000000

\* floor(b / 10^k), and whether the division left a remainder; nine powers of
\* ten are divided out at a time
RECURSIVE DivPow10(_, _)
DivPow10(b, k) ==
    IF k = 0 THEN [q |-> b, sticky |-> FALSE]
    ELSE LET step == IF k > 9 THEN 9 ELSE k
             d == DivRem(b, Pow10(step))
             q == Canon(d.q)
         IN  IF Len(q) = 0 THEN [q |-> <<>>, sticky |-> d.r # 0]
             ELSE LET rest == DivPow10(q, k - step)
                  IN  [q |-> rest.q, sticky |-> rest.sticky \/ d.r # 0]

\* b * 10^k
RECURSIVE MulPow10(_, _)
MulPow10(b, k) ==
    IF k = 0 THEN b
    ELSE LET step == IF k > 9 THEN 9 ELSE k
             p == MulAdd(b, Pow10(step), 0)
         IN  IF Len(p) = 0 THEN <<>> ELSE MulPow10(p, k - step)

\* the number written by a sequence of decimal digit characters
RECURSIVE BitsOfDigits(_)
BitsOfDigits(ds) ==
    IF ds = <<>> THEN <<>>
    ELSE LET front == BitsOfDigits(SubSeq(ds, 1, Len(ds) - 1))
             d == DigitVal(ds[Len(ds)])
         IN  IF Len(front) = 0 THEN BitsOfNat(d) ELSE MulAdd(front, 10, d)

(***************************************************************************)
(* IEEE 754 binary64 (the Python float): sign * m * 2^e with m an odd      *)
(* number of at most 53 bits, or a zero, an infinity or a NaN.  PyNone has *)
(* the same shape, so that an Optional[float] compares with a float.       *)
(***************************************************************************)
SignificandBits == 53
MaxExponent == 1023
MinExponent == -1022

Dbl(cls, sign, m, e) == [cls |-> cls, sign |-> sign, m |-> m, e |-> e]
PyNone == Dbl("None", 1, <<>>, 0)
DblZero(sign) == Dbl("zero", sign, <<>>, 0)
DblInf(sign) == Dbl("inf", sign, <<>>, 0)
DblNaN == Dbl("nan", 1, <<>>, 0)

\* the number of zero bits at the end of b (b not zero)
TrailingZeros(b) ==
    LET last == CHOOSE i \in DOMAIN b :
                    b[i] = 1 /\ \A j \in (i + 1)..Len(b) : b[j] = 0
    IN  Len(b) - last

\* The double nearest to (b + f) * 2^e, where b is a bit sequence and 0 < f < 1
\* if sticky, f = 0 otherwise: round to nearest, ties to even, with gradual
\* underflow and overflow to infinity.
RoundToDouble(sign, b, sticky, e) ==
    IF b = <<>> THEN DblZero(sign)
    ELSE
    LET L == Len(b)
        lead == L - 1 + e
        p == IF lead >= MinExponent
             THEN SignificandBits
             ELSE lead - MinExponent + SignificandBits
        drop == L - p
        kept == IF drop <= 0 THEN b ELSE SubSeq(b, 1, L - drop)
        guard == IF drop >= 1 /\ drop <= L THEN b[L - drop + 1] ELSE 0
        restnz == sticky \/ (drop >= 1 /\ \E j \in (L - drop + 2)..L : j >= 1 /\ b[j] = 1)
        up == guard = 1 /\ (restnz \/ (kept # <<>> /\ kept[Len(kept)] = 1))
        m == IF up THEN MulAdd(kept, 1, 1) ELSE kept
        em == IF drop <= 0 THEN e ELSE e + drop
        tz == TrailingZeros(m)
    IN  IF m = <<>> THEN DblZero(sign)
        ELSE IF Len(m) - 1 + em > MaxExponent THEN DblInf(sign)
        ELSE Dbl("finite", sign, SubSeq(m, 1, Len(m) - tz), em + tz)

\* The double nearest to digits * 10^x (digits: a bit sequence).
\* A negative power of ten is divided out of digits * 2^s, s chosen so that
\* the quotient has more than 55 bits.
DecimalToDouble(sign, digits, x) ==
    IF digits = <<>> THEN DblZero(sign)
    ELSE IF x >= 0 THEN RoundToDouble(sign, MulPow10(digits, x), FALSE, 0)
    ELSE LET s == 60 + 4 * (-x)
             d == DivPow10(digits \o Zeros(s), -x)
         IN  RoundToDouble(sign, d.q, d.sticky, -s)

(***************************************************************************)
(* float(text) and int(text)                                               *)
(***************************************************************************)
\* Position of the first character of text that is in S, or 0.
FirstIndex(text, S) ==
    IF \E i \in DOMAIN text : text[i] \in S
    THEN CHOOSE i \in DOMAIN text :
            text[i] \in S /\ \A j \in 1..(i - 1) : text[j] \notin S
    ELSE 0

\* Digits with single underscores between them (possibly no digit at all).
IsDigitGroup(g) ==
    \A i \in DOMAIN g :
        \/ IsDigit(g[i])
        \/ /\ g[i] = "_"
           /\ i > 1 /\ i < Len(g)
           /\ IsDigit(g[i - 1]) /\ IsDigit(g[i + 1])

DigitsOf(g) == SelectSeq(g, IsDigit)

IsSign(c) == c \in {"+", "-"}
SignOf(text) == IF text # <<>> /\ Head(text) = "-" THEN -1 ELSE 1
Unsigned(text) == IF text # <<>> /\ IsSign(Head(text)) THEN Tail(text) ELSE text

\* Exponents beyond this magnitude overflow or underflow whatever the digits.
ExponentCap == 100000

RECURSIVE ExponentValue(_)
ExponentValue(ds) ==
    IF ds = <<>> THEN 0
    ELSE LET v == 10 * ExponentValue(SubSeq(ds, 1, Len(ds) - 1)) + DigitVal(ds[Len(ds)])
         IN  IF v > ExponentCap THEN ExponentCap ELSE v

t_inf == <<"i","n","f">>
t_infinity == <<"i","n","f","i","n","i","t","y">>
t_nan == <<"n","a","n">>

\* float(text): the double written by text, or PyNone where float() raises
\* ValueError.
PyFloat(text) ==
    LET s == Strip(text)
        sign == SignOf(s)
        body == Unsigned(s)
        ePos == FirstIndex(body, {"e", "E"})
        mant == IF ePos = 0 THEN body ELSE SubSeq(body, 1, ePos - 1)
        expo == IF ePos = 0 THEN <<>> ELSE SubSeq(body, ePos + 1, Len(body))
        dot == FirstIndex(mant, {"."})
        ip == IF dot = 0 THEN mant ELSE SubSeq(mant, 1, dot - 1)
        fp == IF dot = 0 THEN <<>> ELSE SubSeq(mant, dot + 1, Len(mant))
        eg == Unsigned(expo)
        wellFormed ==
            /\ IsDigitGroup(ip) /\ IsDigitGroup(fp)
            /\ DigitsOf(ip) \o DigitsOf(fp) # <<>>
            /\ ePos # 0 => (IsDigitGroup(eg) /\ eg # <<>>)
        digits == BitsOfDigits(DigitsOf(ip) \o DigitsOf(fp))
        x == SignOf(expo) * ExponentValue(DigitsOf(eg)) - Len(DigitsOf(fp))
    IN  IF Lower(body) \in {t_inf, t_infinity} THEN DblInf(sign)
        ELSE IF Lower(body) = t_nan THEN DblNaN
        ELSE IF ~wellFormed THEN PyNone
        ELSE IF digits = <<>> THEN DblZero(sign)
        ELSE IF x > 310 THEN DblInf(sign)
        ELSE IF Len(digits) + x < -330 THEN DblZero(sign)
        ELSE DecimalToDouble(sign, digits, x)

\* A Python int: sign and magnitude (a bit sequence); IntError where int() raises.
IntVal(sign, mag) == [ok |-> TRUE, sign |-> IF mag = <<>> THEN 1 ELSE sign, mag |-> mag]
IntError == [ok |-> FALSE, sign |-> 1, mag |-> <<>>]
IntOf(n) == IntVal(IF n < 0 THEN -1 ELSE 1, BitsOfNat(IF n < 0 THEN -n ELSE n))

\* int(text)
PyInt(text) ==
    LET s == Strip(text)
        g == Unsigned(s)
    IN  IF g # <<>> /\ IsDigitGroup(g)
        THEN IntVal(SignOf(s), BitsOfDigits(DigitsOf(g)))
        ELSE IntError

\* float * int, for a positive int below 2^30
DblTimes(f, mult) ==
    IF f.cls = "finite"
    THEN RoundToDouble(f.sign, MulAdd(f.m, mult, 0), FALSE, f.e)
    ELSE f

\* int(float): truncation towards zero; OverflowError for an infinity and
\* ValueError for a NaN
DblToInt(f) ==
    IF f.cls = "zero" THEN IntVal(1, <<>>)
    ELSE IF f.cls # "finite" THEN IntError
    ELSE IF f.e >= 0 THEN IntVal(f.sign, f.m \o Zeros(f.e))
    ELSE IF Len(f.m) + f.e <= 0 THEN IntVal(1, <<>>)
    ELSE IntVal(f.sign, SubSeq(f.m, 1, Len(f.m) + f.e))

(***************************************************************************)
(* HuggingFaceScraper: number parsing                                      *)
(***************************************************************************)
\* multipliers, in the insertion order of the dict
multipliers ==
    << [suffix |-> "K", mult |-> 1000],
       [suffix |-> "M", mult |-> 1000000],
       [suffix |-> "B", mult |-> 1000000000] >>

\* int(float(text.replace(suffix, "")) * mult), IntError where it raises
TryMultiplier(text, suffix, mult) ==
    LET f == PyFloat(Replace(text, suffix, <<>>))
    IN  IF f = PyNone THEN IntError ELSE DblToInt(DblTimes(f, mult))

\* The for loop of _parse_number from its i-th multiplier on, then the plain
\* int(text) and the final "return 0".
RECURSIVE ParseNumberFrom(_, _)
ParseNumberFrom(text, i) ==
    IF i > Len(multipliers)
    THEN LET n == PyInt(text) IN IF n.ok THEN n ELSE IntOf(0)
    ELSE LET t == IF Contains(text, <<multipliers[i].suffix>>)
                  THEN TryMultiplier(text, multipliers[i].suffix, multipliers[i].mult)
                  ELSE IntError
         IN  IF t.ok THEN t ELSE ParseNumberFrom(text, i + 1)

_parse_number(text) ==
    ParseNumberFrom(Replace(Upper(Strip(text)), ",", <<>>), 1)

\* _parse_benchmark_value: the float, or PyNone
_parse_benchmark_value(text) == PyFloat(Replace(Strip(text), "%", <<>>))

(***************************************************************************)
(* HuggingFaceScraper: benchmark extraction                                *)
(***************************************************************************)
\* Known benchmark names to look for, in the order of the list
BENCHMARK_PATTERNS ==
    << <<"m","m","l","u">>,
       <<"h","u","m","a","n","e","v","a","l">>,
       <<"m","b","p","p">>,
       <<"t","r","u","t","h","f","u","l","q","a">>,
       <<"h","e","l","l","a","s","w","a","g">>,
       <<"w","i","n","o","g","r","a","n","d","e">>,
       <<"g","s","m","8","k">>,
       <<" ","D","R","O","P">>,
       <<" ","S","q","u","a","d">>,
       <<" ","G","L","U","E">>,
       <<"b","i","g"," ","b","e","n","c","h">>,
       <<"m","m","l","u","p","r","o">>,
       <<"a","g","i","e","v","a","l">>,
       <<"b","b","h">>,
       <<"a","r","c">> >>

t_shot == <<"s","h","o","t">>

\* Python's None where an int is expected
NoneInt == [ok |-> FALSE, sign |-> 1, mag |-> <<>>]

\* text[i..] starts with word, letter case ignored (re.I)
StartsWithAt(text, i, word) ==
    /\ i >= 1
    /\ i + Len(word) - 1 <= Len(text)
    /\ Lower(SubSeq(text, i, i + Len(word) - 1)) = Lower(word)

\* The index after the longest run of characters of the set S that starts at i
SkipChars(text, i, S) ==
    LET stops == {j \in i..Len(text) : text[j] \notin S}
    IN  IF i > Len(text) THEN i
        ELSE IF stops = {} THEN Len(text) + 1
        ELSE CHOOSE j \in stops : \A k \in stops : j <= k

Digits == {DigitChars[d] : d \in DOMAIN DigitChars}
Spaces == {" ", "\t", "\n", "\r"}
ShotSep1 == {"_", "-"}
ShotSep2 == Spaces \cup {"-"}
ShotSep3 == Spaces \cup {"_"}

\* A match of (\d+)[_-]shot that starts at i: the captured digits, or <<>>
ShotMatch1(text, i) ==
    LET j == SkipChars(text, i, Digits)
    IN  IF j > i /\ j <= Len(text) /\ text[j] \in ShotSep1 /\ StartsWithAt(text, j + 1, t_shot)
        THEN SubSeq(text, i, j - 1) ELSE <<>>

\* A match of (\d+)[\s-]*shot that starts at i
ShotMatch2(text, i) ==
    LET j == SkipChars(text, i, Digits)
        k == SkipChars(text, j, ShotSep2)
    IN  IF j > i /\ StartsWithAt(text, k, t_shot) THEN SubSeq(text, i, j - 1) ELSE <<>>

\* A match of shot[_\s]*(\d+) that starts at i
ShotMatch3(text, i) ==
    IF ~StartsWithAt(text, i, t_shot) THEN <<>>
    ELSE LET k == SkipChars(text, i + Len(t_shot), ShotSep3)
             j == SkipChars(text, k, Digits)
         IN  SubSeq(text, k, j - 1)

\* A match of the n-th pattern of the list that starts at i
ShotMatch(n, text, i) ==
    CASE n = 1 -> ShotMatch1(text, i)
      [] n = 2 -> ShotMatch2(text, i)
      [] n = 3 -> ShotMatch3(text, i)

\* re.search with the n-th pattern: the match at the leftmost position that has one
ShotSearch(n, text) ==
    LET starts == {i \in 1..Len(text) : ShotMatch(n, text, i) # <<>>}
    IN  IF starts = {} THEN <<>>
        ELSE ShotMatch(n, text, CHOOSE i \in starts : \A k \in starts : i <= k)

\* The variant that tries the three patterns in the reverse order
_extract_num_shots_reversed(text) ==
    LET g1 == ShotSearch(1, text)
        g2 == ShotSearch(2, text)
        g3 == ShotSearch(3, text)
        g  == IF g3 # <<>> THEN g3 ELSE IF g2 # <<>> THEN g2 ELSE g1
    IN  IF g = <<>> THEN NoneInt ELSE IntVal(1, BitsOfDigits(g))

\* _extract_num_shots: the first of the three patterns that matches decides
_extract_num_shots(text) ==
    LET g1 == ShotSearch(1, text)
        g2 == ShotSearch(2, text)
        g3 == ShotSearch(3, text)
        g  == IF g1 # <<>> THEN g1 ELSE IF g2 # <<>> THEN g2 ELSE g3
    IN  IF g = <<>> THEN NoneInt ELSE IntVal(1, BitsOfDigits(g))

BenchmarkScore(name, value, dataset, num_shots, raw_value) ==
    [name |-> name, value |-> value, dataset |-> dataset,
     num_shots |-> num_shots, raw_value |-> raw_value]

\* What the loop over the patterns does for one row: nothing, or one append
NoAppend == [appended |-> FALSE, pattern |-> 0,
             record |-> BenchmarkScore(<<>>, PyNone, <<>>, NoneInt, <<>>)]
Appended(i, record) == [appended |-> TRUE, pattern |-> i, record |-> record]

\* The variant that stores 0 where the value does not parse
RECURSIVE PatternLoopStoreZero(_, _, _)
PatternLoopStoreZero(name_cell, value_cell, i) ==
    IF i > Len(BENCHMARK_PATTERNS) THEN NoAppend
    ELSE IF Contains(name_cell, Lower(BENCHMARK_PATTERNS[i]))
    THEN LET value == _parse_benchmark_value(value_cell)
         IN  Appended(i, BenchmarkScore(name_cell, IF value # PyNone THEN value ELSE DblZero(1),
                                      name_cell, _extract_num_shots(name_cell), value_cell))
    ELSE PatternLoopStoreZero(name_cell, value_cell, i + 1)

\* for pattern in self.BENCHMARK_PATTERNS, from the i-th pattern on: the first
\* pattern found in name_cell with a value that parses appends and breaks
RECURSIVE PatternLoop(_, _, _)
PatternLoop(name_cell, value_cell, i) ==
    IF i > Len(BENCHMARK_PATTERNS) THEN NoAppend
    ELSE IF Contains(name_cell, Lower(BENCHMARK_PATTERNS[i]))
    THEN LET value == _parse_benchmark_value(value_cell)
         IN  IF value # PyNone
             THEN Appended(i, BenchmarkScore(name_cell, value, name_cell,
                                           _extract_num_shots(name_cell), value_cell))
             ELSE PatternLoop(name_cell, value_cell, i + 1)
    ELSE PatternLoop(name_cell, value_cell, i + 1)

\* The body of "for row in rows" for a row with these cell texts
RowBody(cells) ==
    IF Len(cells) >= 2
    THEN PatternLoop(Lower(Strip(cells[1])), Strip(cells[2]), 1)
    ELSE NoAppend

\* A document is the sequence of its outermost tables, a table the sequence of
\* its rows, a row the sequence of its cells, and a cell has its own text and
\* the tables nested in it. find_all returns the descendants of an element,
\* not only its children, in document order.
Cell(text, tables) == [text |-> text, tables |-> tables]
TextCell(text) == Cell(text, <<>>)
TextRow(texts) == [i \in DOMAIN texts |-> TextCell(texts[i])]

RECURSIVE Flatten(_)
Flatten(ss) == IF ss = <<>> THEN <<>> ELSE Head(ss) \o Flatten(Tail(ss))

\* cell.get_text(): the text of the cell and of everything nested in it
RECURSIVE get_text(_)
get_text(cell) ==
    cell.text \o
    Flatten([t \in DOMAIN cell.tables |->
        Flatten([k \in DOMAIN cell.tables[t] |->
            Flatten([c \in DOMAIN cell.tables[t][k] |-> get_text(cell.tables[t][k][c])])])])

\* The cells below a row: its own cells, each followed by the cells of the
\* rows of the tables nested in it
RECURSIVE DescendantCells(_)
DescendantCells(r) ==
    Flatten([i \in DOMAIN r |->
        <<r[i]>> \o
        Flatten([t \in DOMAIN r[i].tables |->
            Flatten([k \in DOMAIN r[i].tables[t] |-> DescendantCells(r[i].tables[t][k])])])])

\* soup.find_all("table"): the tables of the document, nested ones included,
\* in document order
RECURSIVE find_all_table(_)
find_all_table(document) ==
    Flatten([t \in DOMAIN document |->
        <<document[t]>> \o
        Flatten([k \in DOMAIN document[t] |->
            Flatten([c \in DOMAIN document[t][k] |->
                find_all_table(document[t][k][c].tables)])])])

\* table.find_all("tr"): the rows of a table, those of the tables nested in
\* it included, in document order
RECURSIVE find_all_tr(_)
find_all_tr(table) ==
    Flatten([k \in DOMAIN table |->
        <<table[k]>> \o
        Flatten([c \in DOMAIN table[k] |->
            Flatten([t \in DOMAIN table[k][c].tables |-> find_all_tr(table[k][c].tables[t])])])])

\* row.find_all(["th", "td"]) with get_text() of each cell
find_all_cells(r) ==
    LET cells == DescendantCells(r) IN [i \in DOMAIN cells |-> get_text(cells[i])]

\* The rows visited by "for table in tables: for row in rows", in order
RECURSIVE RowsOf(_)
RowsOf(tables) ==
    IF tables = <<>> THEN <<>>
    ELSE find_all_tr(Head(tables)) \o RowsOf(Tail(tables))

\* extract_benchmarks from the i-th visited row on, as a function of the rows
RECURSIVE ExtractFrom(_, _)
ExtractFrom(rs, i) ==
    IF i > Len(rs) THEN <<>>
    ELSE LET r == RowBody(find_all_cells(rs[i]))
             rest == ExtractFrom(rs, i + 1)
         IN  IF r.appended THEN <<r.record>> \o rest ELSE rest

\* extract_benchmarks(soup): the list it returns
extract_benchmarks(document) == ExtractFrom(RowsOf(find_all_table(document)), 1)

\* A page as far as get_model_info reads it: its tables and the texts of the
\* download-count and like-count elements, where it has them
NoElement == [present |-> FALSE, text |-> <<>>]
Element(text) == [present |-> TRUE, text |-> text]
Page(tables, download_elem, like_elem) ==
    [tables |-> tables, download_elem |-> download_elem, like_elem |-> like_elem]

t_unknown == <<"u","n","k","n","o","w","n">>

\* parse_model_id: model_id.split("/") has exactly two parts, or not
parse_model_id(m) ==
    LET slashes == {i \in DOMAIN m : m[i] = "/"}
    IN  IF Cardinality(slashes) = 1
        THEN LET i == CHOOSE k \in slashes : TRUE
             IN  [author |-> SubSeq(m, 1, i - 1), name |-> SubSeq(m, i + 1, Len(m))]
        ELSE [author |-> t_unknown, name |-> m]

\* extract_metadata, as far as to_dict reads the metadata
extract_metadata(page, m) ==
    [model_id |-> m,
     author |-> parse_model_id(m).author,
     name |-> parse_model_id(m).name,
     downloads |-> IF page.download_elem.present
                   THEN _parse_number(page.download_elem.text) ELSE IntOf(0),
     likes |-> IF page.like_elem.present
               THEN _parse_number(page.like_elem.text) ELSE IntOf(0)]

\* get_model_info on a fetched page
get_model_info(page, m) ==
    [metadata |-> extract_metadata(page, m),
     benchmarks |-> extract_benchmarks(page.tables)]

\* ModelData.to_dict, without scraped_at (the time of the call)
to_dict(data) ==
    [model_id |-> data.metadata.model_id,
     author |-> data.metadata.author,
     name |-> data.metadata.name,
     downloads |-> data.metadata.downloads,
     likes |-> data.metadata.likes,
     benchmarks |-> [i \in DOMAIN data.benchmarks |->
                        [name |-> data.benchmarks[i].name,
                         value |-> data.benchmarks[i].value,
                         dataset |-> data.benchmarks[i].dataset,
                         num_shots |-> data.benchmarks[i].num_shots]]]

(***************************************************************************)
(* HuggingFaceScraper: pipeline tag                                        *)
(***************************************************************************)
\* The <a> and <span> elements of a document, in document order, each with
\* its href (of an <a>), its class (of a <span>) and its text
Anchor(href, text) == [tag |-> "a", href |-> href, class |-> <<>>, text |-> text]
Span(class, text) == [tag |-> "span", href |-> <<>>, class |-> class, text |-> text]

t_pipeline_tag == <<"/","p","i","p","e","l","i","n","e","-","t","a","g","/">>
t_pipeline == <<"p","i","p","e","l","i","n","e">>

\* Python's None where a str is expected
NoneStr == [is_none |-> TRUE, text |-> <<>>]
Str(text) == [is_none |-> FALSE, text |-> text]

\* soup.find("a", {"href": re.compile(r"/pipeline-tag/")}) accepts the element
IsPipelineLink(el) == el.tag = "a" /\ Contains(el.href, t_pipeline_tag)

\* soup.find("span", {"class": re.compile(r"pipeline")}) accepts the element
IsPipelineBadge(el) == el.tag = "span" /\ Contains(el.class, t_pipeline)

\* soup.find: the index of the first element accepted, or 0
FindFirst(elements, Accepted) ==
    IF Accepted = {} THEN 0 ELSE CHOOSE i \in Accepted : \A k \in Accepted : i <= k

\* href.split("/")[-1]
LastSegment(href) ==
    LET slashes == {i \in DOMAIN href : href[i] = "/"}
    IN  IF slashes = {} THEN href
        ELSE SubSeq(href, (CHOOSE i \in slashes : \A k \in slashes : k <= i) + 1, Len(href))

TagOf(el) == IF el.tag = "a" THEN LastSegment(el.href) ELSE Strip(el.text)

\* The variant that takes the first link or badge in document order
extract_pipeline_tag_document_order(elements) ==
    LET first == FindFirst(elements, {i \in DOMAIN elements :
                     IsPipelineLink(elements[i]) \/ IsPipelineBadge(elements[i])})
    IN  IF first # 0 THEN Str(TagOf(elements[first])) ELSE NoneStr

\* extract_pipeline_tag: the first link if there is one, else the first badge
extract_pipeline_tag(elements) ==
    LET pipeline_elem == FindFirst(elements, {i \in DOMAIN elements : IsPipelineLink(elements[i])})
        badge == FindFirst(elements, {i \in DOMAIN elements : IsPipelineBadge(elements[i])})
    IN  IF pipeline_elem # 0 THEN Str(LastSegment(elements[pipeline_elem].href))
        ELSE IF badge # 0 THEN Str(Strip(elements[badge].text))
        ELSE NoneStr

(***************************************************************************)
(* Exact rationals n/d (d > 0, lowest terms) for the quotient computed by  *)
(* compare on integer-valued inputs.                                       *)
(***************************************************************************)
Abs(x) == IF x < 0 THEN -x ELSE x

RECURSIVE GCD(_, _)
GCD(a, b) == IF b = 0 THEN a ELSE GCD(b, a % b)

Rat(n, d) ==
    LET g == GCD(Abs(n), Abs(d))
        s == IF d < 0 THEN -1 ELSE 1
    IN  [n |-> s * (n \div g), d |-> s * (d \div g)]

RatLess(q, k) == q.n < k * q.d

(***************************************************************************)
(* BenchmarkRunner                                                         *)
(***************************************************************************)
\* run_benchmark: the placeholder result, whatever the model and the task.
run_benchmark(m, task) ==
    [model_id |-> m, task |-> task, value |-> 0, status |-> "not_implemented"]

\* actual_result.get("value", 0)
GetValue(actual_result) ==
    IF "value" \in DOMAIN actual_result THEN actual_result.value ELSE 0

\* Mutant: the quotient is not scaled to a percentage.
difference_pct_unscaled(difference, rep) ==
    IF rep # 0 THEN Rat(difference, rep) ELSE Rat(0, 1)

difference_pct_of(difference, rep) ==
    IF rep # 0 THEN Rat(difference * 100, rep) ELSE Rat(0, 1)

\* Mutant: the threshold itself counts as overclaimed (<= instead of <).
is_overclaimed_inclusive(difference_pct) == difference_pct.n <= (-5) * difference_pct.d

is_overclaimed_of(difference_pct) == RatLess(difference_pct, -5)

compare(m, task, metric, rep, actual) ==
    LET difference == actual - rep
        difference_pct == difference_pct_of(difference, rep)
        is_overclaimed == is_overclaimed_of(difference_pct)
    IN  [model_id |-> m, task |-> task, metric |-> metric,
         reported_value |-> rep, actual_value |-> actual,
         difference |-> difference, difference_pct |-> difference_pct,
         is_overclaimed |-> is_overclaimed,
         notes |-> IF is_overclaimed THEN "Overclaimed!" ELSE "Within expected range"]

\* f"data/{model_id.replace('/', '_')}.json"
filename(m) ==
    <<"d","a","t","a","/">> \o Replace(m, "/", <<"_">>) \o <<".","j","s","o","n">>

\* {b["name"]: b["value"] for b in benchmarks}: a later entry replaces an earlier
\* one of the same name.
\* Mutant: an earlier entry is kept when a later one has the same name.
RECURSIVE DictOfFirst(_)
DictOfFirst(entries) ==
    IF entries = <<>> THEN <<>>
    ELSE LET b == entries[1]
             after == DictOfFirst(Tail(entries))
         IN  [k \in DOMAIN after \cup {b.name} |->
                 IF k = b.name THEN b.value ELSE after[k]]

RECURSIVE DictOf(_)
DictOf(entries) ==
    IF entries = <<>> THEN <<>>
    ELSE LET n == Len(entries)
             b == entries[n]
             before == DictOf(SubSeq(entries, 1, n - 1))
         IN  [k \in DOMAIN before \cup {b.name} |->
                 IF k = b.name THEN b.value ELSE before[k]]

\* The variant that answers a missing file with a mapping of the default
\* tasks to 0 instead of the empty mapping
load_reported_benchmarks_default(dir, m) ==
    LET f == filename(m)
    IN  IF f \notin DOMAIN dir \/ ~dir[f].exists
        THEN [k \in {t_mmlu, t_humaneval, t_mbpp} |-> 0]
        ELSE DictOf(dir[f].benchmarks)

load_reported_benchmarks(dir, m) ==
    LET f == filename(m)
    IN  IF f \notin DOMAIN dir \/ ~dir[f].exists THEN <<>> ELSE DictOf(dir[f].benchmarks)

DefaultTasks == <<t_mmlu, t_humaneval, t_mbpp>>

(***************************************************************************)
(* Bounds and input sets of the runner                                     *)
(***************************************************************************)
MaxEntries == 2     \* entries of a persisted benchmark file
MaxTasks == 2       \* length of a task list given to compare_model
MaxVal == 100       \* compare is called on the integers -MaxVal..MaxVal

ModelIds == {<<"a","/","b">>, <<"a","_","b">>}
TaskPool == {t_mmlu, t_gsm8k, t_mbpp}
ReportedNames == {t_mmlu, t_gsm8k, t_mmlu_5shot}
ReportedValues == {0, 70}
CompareValues == (-MaxVal)..MaxVal

SeqsUpTo(S, n) == UNION {[1..k -> S] : k \in 0..n}

FileEntries == [name : ReportedNames, value : ReportedValues]
FileContents == {NoFile} \cup {File(b) : b \in SeqsUpTo(FileEntries, MaxEntries)}
FileNames == {filename(m) : m \in ModelIds}
TaskLists == {NoTasks} \cup {TaskList(l) : l \in SeqsUpTo(TaskPool, MaxTasks)}

(***************************************************************************)
(* Initial states                                                          *)
(***************************************************************************)
InitRunner ==
    /\ model_id = <<>>
    /\ tasks = <<>>
    /\ reported = <<>>
    /\ comparisons = <<>>
    /\ idx = 1
    /\ calls = <<>>

InitScraper ==
    /\ rows = <<>>
    /\ row = 1
    /\ benchmarks = <<>>
    /\ matched = <<>>
    /\ extracted = <<>>

NotWritten == [written |-> FALSE, results |-> <<>>]
Written(entries) == [written |-> TRUE, results |-> entries]

InitBatch ==
    /\ batch_idx = 1
    /\ results = <<>>
    /\ attempts = <<>>
    /\ output_file = NotWritten

InitCall ==
    /\ pc = "idle"
    /\ result = None
    /\ InitRunner
    /\ InitScraper
    /\ InitBatch

NoDocument == <<>>

Init ==
    /\ data_dir \in [FileNames -> FileContents]
    /\ args = None
    /\ soup = NoDocument
    /\ InitCall

InitCompare ==
    /\ data_dir = [f \in FileNames |-> NoFile]
    /\ args \in [reported : CompareValues, actual : CompareValues]
    /\ soup = NoDocument
    /\ InitCall

Idle == pc \in {"idle", "compare_model:ret", "scrape:ret"}

(***************************************************************************)
(* compare(model_id, task, metric, reported, actual), called directly      *)
(***************************************************************************)
CompareCall ==
    /\ pc = "idle"
    /\ \E m \in ModelIds :
          result' = compare(m, t_mmlu, "accuracy", args.reported, args.actual)
    /\ pc' = "compare:ret"
    /\ UNCHANGED <<data_dir, args, runnerVars, scraperVars, batchVars>>

(***************************************************************************)
(* compare_model(model_id, tasks)                                          *)
(***************************************************************************)
CompareModelCall ==
    /\ Idle
    /\ \E m \in ModelIds, ts \in TaskLists :
          /\ model_id' = m
          /\ tasks' = IF ts.is_none THEN DefaultTasks ELSE ts.list
          /\ reported' = load_reported_benchmarks(data_dir, m)
    /\ comparisons' = <<>>
    /\ idx' = 1
    /\ calls' = <<>>
    /\ result' = None
    /\ pc' = "compare_model:for"
    /\ UNCHANGED <<data_dir, args, scraperVars, batchVars>>

\* Mutant: the loop body without the "if task in reported" test, a task with no
\* reported value being compared against 0.
CompareModelIterUnfiltered ==
    /\ pc = "compare_model:for"
    /\ idx <= Len(tasks)
    /\ LET task == tasks[idx]
           rep == IF task \in DOMAIN reported THEN reported[task] ELSE 0
       IN  /\ calls' = Append(calls, [model_id |-> model_id, task |-> task])
           /\ comparisons' = Append(comparisons,
                 compare(model_id, task, "accuracy", rep,
                         GetValue(run_benchmark(model_id, task))))
    /\ idx' = idx + 1
    /\ UNCHANGED <<data_dir, pc, model_id, tasks, reported, args, result, scraperVars, batchVars>>

\* Mutant: a new comparison is put in front of the list instead of at its end.
CompareModelIterPrepend ==
    /\ pc = "compare_model:for"
    /\ idx <= Len(tasks)
    /\ LET task == tasks[idx]
       IN  IF task \in DOMAIN reported
           THEN /\ calls' = Append(calls, [model_id |-> model_id, task |-> task])
                /\ comparisons' = <<compare(model_id, task, "accuracy", reported[task],
                                           GetValue(run_benchmark(model_id, task)))>>
                                  \o comparisons
           ELSE UNCHANGED <<calls, comparisons>>
    /\ idx' = idx + 1
    /\ UNCHANGED <<data_dir, pc, model_id, tasks, reported, args, result, scraperVars, batchVars>>

\* One iteration of "for task in tasks".
CompareModelIter ==
    /\ pc = "compare_model:for"
    /\ idx <= Len(tasks)
    /\ LET task == tasks[idx]
       IN  IF task \in DOMAIN reported
           THEN LET actual_result == run_benchmark(model_id, task)
                IN  /\ calls' = Append(calls, [model_id |-> model_id, task |-> task])
                    /\ comparisons' = Append(comparisons,
                          compare(model_id, task, "accuracy", reported[task],
                                  GetValue(actual_result)))
           ELSE UNCHANGED <<calls, comparisons>>
    /\ idx' = idx + 1
    /\ UNCHANGED <<data_dir, pc, model_id, tasks, reported, args, result, scraperVars, batchVars>>

CompareModelReturn ==
    /\ pc = "compare_model:for"
    /\ idx > Len(tasks)
    /\ result' = comparisons
    /\ pc' = "compare_model:ret"
    /\ UNCHANGED <<data_dir, args, runnerVars, scraperVars, batchVars>>

Next == CompareModelCall \/ CompareModelIter \/ CompareModelReturn

Spec == Init /\ [][Next]_vars

NextCompare == CompareCall

SpecCompare == InitCompare /\ [][NextCompare]_vars

(***************************************************************************)
(* Bounds and input sets of the scraper                                    *)
(***************************************************************************)
MaxRows == 2        \* table rows of a document, over all its tables
MaxTables == 2      \* tables of a document

\* Rows as the texts of their cells: labels in either letter case and padded,
\* two rows of the same label (a 0-1 fraction and a percentage), a label with two catalog identifiers, a label
\* with none, a value that is no number, a row of one cell and a row of three
RowTexts ==
    { <<<<"M","M","L","U">>, <<"0",".","7","0","5">>>>,
      <<<<" ","m","m","l","u"," ">>, <<"6","5","%">>>>,
      <<<<"m","m","l","u","-","p","r","o"," ","s","c","o","r","e">>, <<"5","0">>>>,
      <<<<"M","M","L","U","P","r","o"," ","(","5","-","s","h","o","t",")">>, <<"4","0">>, <<"a","c","c">>>>,
      <<<<"L","i","c","e","n","s","e">>, <<"M","I","T">>>>,
      <<<<"g","s","m","8","k">>, <<"n","/","a">>>>,
      <<<<"a","r","c">>>> }

RowPool == {TextRow(texts) : texts \in RowTexts}

\* The ways to cut a sequence of rows into k consecutive tables
RECURSIVE Cuts(_, _)
Cuts(rs, k) ==
    IF k = 0 THEN (IF rs = <<>> THEN {<<>>} ELSE {})
    ELSE UNION { { <<SubSeq(rs, 1, i)>> \o rest : rest \in Cuts(SubSeq(rs, i + 1, Len(rs)), k - 1) }
                 : i \in 0..Len(rs) }

FlatDocuments ==
    UNION { Cuts(rs, k) : rs \in SeqsUpTo(RowPool, MaxRows), k \in 0..MaxTables }

\* Documents with a table nested in a cell of a row of another table
InnerTable == << TextRow(<<<<"M","M","L","U">>, <<"0",".","7","0","5">>>>) >>
InnerTableValueFirst == << TextRow(<<<<"7","0">>, <<"M","M","L","U">>>>) >>
NestedDocuments ==
    { << << <<TextCell(<<"R","e","s","u","l","t","s">>), Cell(<<>>, <<InnerTable>>)>> >> >>,
      << << <<Cell(<<>>, <<InnerTable>>)>>, TextRow(<<<<" ","m","m","l","u"," ">>, <<"6","5","%">>>>) >> >>,
      << << <<Cell(<<>>, <<InnerTableValueFirst>>)>> >> >> }

Documents == FlatDocuments \cup NestedDocuments

\* The texts given to the number parsers, by their parts: text is
\* pre sign ip fp ex unit post, written one after the other
Pres == {<<>>, <<" ">>}
Signs == {<<>>, <<"-">>}
IntParts == {<<>>, <<"0">>, <<"1">>, <<"4">>, <<"1","2">>, <<"7","0">>, <<"1",",","2","0","0">>}
FracParts == {<<>>, <<".">>, <<".","0">>, <<".","1">>, <<".","5">>, <<".","0","1">>, <<".","1","2","5">>}
ExpParts == {<<>>, <<"e","2">>, <<"e","-","4","0","0">>}
Units == {<<>>, <<"K">>, <<"M">>, <<"B">>, <<"k">>, <<"m">>, <<"b">>, <<"%">>, <<"K","B">>, <<"x">>}
Posts == {<<>>, <<" ">>}
Words == {<<"n","o","t"," ","a"," ","n","u","m","b","e","r">>, <<"n","/","a">>, <<"n","a","n">>, <<"N","a","N">>, <<"i","n","f">>, <<"-","I","n","f","i","n","i","t","y">>, <<"K">>, <<"%">>, <<"K","1">>, <<"1","K","5">>, <<"1","K","K">>}

NoParts == [pre |-> <<>>, sign |-> <<>>, ip |-> <<>>, fp |-> <<>>, ex |-> <<>>,
            unit |-> <<>>, post |-> <<>>]
NumeralInputs ==
    [pre : Pres, sign : Signs, ip : IntParts, fp : FracParts, ex : ExpParts,
     unit : Units, post : Posts]
WordInputs == {[NoParts EXCEPT !.unit = w] : w \in Words}
ParseInputs == NumeralInputs \cup WordInputs

TextOf(a) == a.pre \o a.sign \o a.ip \o a.fp \o a.ex \o a.unit \o a.post

(***************************************************************************)
(* extract_benchmarks(soup)                                                *)
(***************************************************************************)
InitExtract ==
    /\ data_dir = [f \in FileNames |-> NoFile]
    /\ args = None
    /\ soup \in Documents
    /\ InitCall

\* The variant whose list outlives the call, as an attribute of the scraper
\* would: the entry does not start from the empty list
ExtractCallKeepList ==
    /\ pc = "idle"
    /\ rows' = RowsOf(find_all_table(soup))
    /\ row' = 1
    /\ pc' = "extract_benchmarks:for"
    /\ UNCHANGED <<data_dir, args, result, soup, benchmarks, matched, extracted, runnerVars, batchVars>>

ExtractCall ==
    /\ pc = "idle"
    /\ benchmarks' = <<>>
    /\ matched' = <<>>
    /\ rows' = RowsOf(find_all_table(soup))
    /\ row' = 1
    /\ pc' = "extract_benchmarks:for"
    /\ UNCHANGED <<data_dir, args, result, soup, extracted, runnerVars, batchVars>>

\* One iteration of "for row in rows" with the variant of the pattern loop
ExtractRowStoreZero ==
    /\ pc = "extract_benchmarks:for"
    /\ row <= Len(rows)
    /\ LET cells == find_all_cells(rows[row])
           r == IF Len(cells) >= 2
                THEN PatternLoopStoreZero(Lower(Strip(cells[1])), Strip(cells[2]), 1)
                ELSE NoAppend
       IN  /\ benchmarks' = IF r.appended THEN benchmarks \o <<r.record>> ELSE benchmarks
           /\ matched' = IF r.appended THEN matched \o <<r.pattern>> ELSE matched
    /\ row' = row + 1
    /\ UNCHANGED <<data_dir, pc, args, result, soup, rows, extracted, runnerVars, batchVars>>

\* One iteration of "for row in rows", of whichever table the row is in
ExtractRow ==
    /\ pc = "extract_benchmarks:for"
    /\ row <= Len(rows)
    /\ LET r == RowBody(find_all_cells(rows[row]))
       IN  /\ benchmarks' = IF r.appended THEN benchmarks \o <<r.record>> ELSE benchmarks
           /\ matched' = IF r.appended THEN matched \o <<r.pattern>> ELSE matched
    /\ row' = row + 1
    /\ UNCHANGED <<data_dir, pc, args, result, soup, rows, extracted, runnerVars, batchVars>>

ExtractReturn ==
    /\ pc = "extract_benchmarks:for"
    /\ row > Len(rows)
    /\ result' = benchmarks
    /\ extracted' = extracted \o <<[soup |-> soup, result |-> benchmarks]>>
    /\ pc' = "extract_benchmarks:ret"
    /\ UNCHANGED <<data_dir, args, soup, rows, row, benchmarks, matched, runnerVars, batchVars>>

NextExtract == ExtractCall \/ ExtractRow \/ ExtractReturn

SpecExtract == InitExtract /\ [][NextExtract]_vars

(***************************************************************************)
(* extract_benchmarks called several times on one scraper                  *)
(***************************************************************************)
MaxCalls == 3       \* calls of extract_benchmarks on the scraper

\* The documents given to the calls
CallDocuments ==
    { << <<TextRow(<<<<"M","M","L","U">>, <<"0",".","7","0","5">>>>), TextRow(<<<<"g","s","m","8","k">>, <<"n","/","a">>>>)>> >>,
      << <<TextRow(<<<<" ","m","m","l","u"," ">>, <<"6","5","%">>>>)>>, <<TextRow(<<<<"M","M","L","U">>, <<"0",".","7","0","5">>>>)>> >>,
      <<>> }

InitExtractAgain ==
    /\ data_dir = [f \in FileNames |-> NoFile]
    /\ args = None
    /\ soup \in CallDocuments
    /\ InitCall

\* Between two calls: the caller has the next document, the locals of the
\* call that returned are what that call left
ExtractNext ==
    /\ pc = "extract_benchmarks:ret"
    /\ Len(extracted) < MaxCalls
    /\ soup' \in CallDocuments
    /\ pc' = "idle"
    /\ UNCHANGED <<data_dir, args, result, rows, row, benchmarks, matched, extracted,
                   runnerVars, batchVars>>

NextExtractAgain == ExtractCall \/ ExtractRow \/ ExtractReturn \/ ExtractNext

SpecExtractAgain == InitExtractAgain /\ [][NextExtractAgain]_vars

(***************************************************************************)
(* _parse_benchmark_value(text) and _parse_number(text), called directly   *)
(***************************************************************************)
InitParse ==
    /\ data_dir = [f \in FileNames |-> NoFile]
    /\ args \in ParseInputs
    /\ soup = NoDocument
    /\ InitCall

ParseBenchmarkValueCall ==
    /\ pc = "idle"
    /\ result' = _parse_benchmark_value(TextOf(args))
    /\ pc' = "_parse_benchmark_value:ret"
    /\ UNCHANGED <<data_dir, args, runnerVars, scraperVars, batchVars>>

ParseNumberCall ==
    /\ pc = "idle"
    /\ result' = _parse_number(TextOf(args))
    /\ pc' = "_parse_number:ret"
    /\ UNCHANGED <<data_dir, args, runnerVars, scraperVars, batchVars>>

NextParse == ParseBenchmarkValueCall \/ ParseNumberCall

SpecParse == InitParse /\ [][NextParse]_vars

(***************************************************************************)
(* _extract_num_shots(text), called directly                               *)
(***************************************************************************)
\* The labels given: one or two pieces, separated by a space
ShotPieces == {<<>>, <<"m","m","l","u">>, <<"5","-","s","h","o","t">>, <<"5","_","s","h","o","t">>, <<"5"," ","s","h","o","t">>, <<"5","s","h","o","t">>, <<"s","h","o","t"," ","3">>, <<"s","h","o","t","_","3">>, <<"s","h","o","t","3">>, <<"1","2"," ","-"," ","s","h","o","t">>, <<"s","h","o","t","s">>, <<"7">>}
ShotLabels ==
    {IF b = <<>> THEN a ELSE a \o <<" ">> \o b : a \in ShotPieces \ {<<>>}, b \in ShotPieces}

InitShots ==
    /\ data_dir = [f \in FileNames |-> NoFile]
    /\ args \in [label : ShotLabels]
    /\ soup = NoDocument
    /\ InitCall

ExtractNumShotsCall ==
    /\ pc = "idle"
    /\ result' = _extract_num_shots(args.label)
    /\ pc' = "_extract_num_shots:ret"
    /\ UNCHANGED <<data_dir, args, runnerVars, scraperVars, batchVars>>

NextShots == ExtractNumShotsCall

SpecShots == InitShots /\ [][NextShots]_vars

(***************************************************************************)
(* batch(model_ids, output)                                                *)
(***************************************************************************)
MaxBatch == 3       \* model ids given to batch

BatchIds == {<<"a","/","b">>, <<"c">>}

\* What get_model_info does for one model id: it raises while fetching the
\* page (network error, HTTP status), it raises while parsing or extracting,
\* or it returns the data of the page fetched
PagePool ==
    { Page(<< <<TextRow(<<<<"M","M","L","U">>, <<"7","0",".","5">>>>)>> >>, Element(<<"1",".","2","M">>), Element(<<"5","0","0">>)),
      Page(<<>>, NoElement, Element(<<"4",".","1","K">>)) }
Raised(kind) == [kind |-> kind, page |-> Page(<<>>, NoElement, NoElement)]
Fetched(page) == [kind |-> "ok", page |-> page]
Outcomes == {Raised("fetch_error"), Raised("extract_error")} \cup {Fetched(p) : p \in PagePool}

InitBatchCall ==
    /\ data_dir = [f \in FileNames |-> NoFile]
    /\ args \in [model_ids : SeqsUpTo(BatchIds, MaxBatch)]
    /\ soup = NoDocument
    /\ InitCall

BatchCall ==
    /\ pc = "idle"
    /\ results' = <<>>
    /\ attempts' = <<>>
    /\ batch_idx' = 1
    /\ pc' = "batch:for"
    /\ UNCHANGED <<data_dir, args, result, output_file, runnerVars, scraperVars>>

\* One iteration of the loop without its try/except: an exception of
\* get_model_info leaves batch
BatchIterNoExcept ==
    /\ pc = "batch:for"
    /\ batch_idx <= Len(args.model_ids)
    /\ \E o \in Outcomes :
          LET m == args.model_ids[batch_idx]
          IN  /\ attempts' = attempts \o <<[model_id |-> m, outcome |-> o]>>
              /\ IF o.kind = "ok"
                 THEN /\ results' = results \o <<to_dict(get_model_info(o.page, m))>>
                      /\ pc' = pc
                 ELSE /\ results' = results
                      /\ pc' = "batch:raised"
    /\ batch_idx' = batch_idx + 1
    /\ UNCHANGED <<data_dir, args, result, output_file, runnerVars, scraperVars>>

\* One iteration of "for model_id in model_ids": try get_model_info and
\* append its to_dict(); except Exception: report and go on
BatchIter ==
    /\ pc = "batch:for"
    /\ batch_idx <= Len(args.model_ids)
    /\ \E o \in Outcomes :
          LET m == args.model_ids[batch_idx]
          IN  /\ attempts' = attempts \o <<[model_id |-> m, outcome |-> o]>>
              /\ results' = IF o.kind = "ok"
                            THEN results \o <<to_dict(get_model_info(o.page, m))>>
                            ELSE results
    /\ batch_idx' = batch_idx + 1
    /\ UNCHANGED <<data_dir, pc, args, result, output_file, runnerVars, scraperVars>>

\* After the loop: json.dump(results, f)
BatchSave ==
    /\ pc = "batch:for"
    /\ batch_idx > Len(args.model_ids)
    /\ output_file' = Written(results)
    /\ pc' = "batch:ret"
    /\ UNCHANGED <<data_dir, args, result, batch_idx, results, attempts, runnerVars, scraperVars>>

NextBatch == BatchCall \/ BatchIter \/ BatchSave

SpecBatch == InitBatchCall /\ [][NextBatch]_vars

(***************************************************************************)
(* extract_pipeline_tag(soup), called directly                             *)
(***************************************************************************)
MaxElements == 3    \* <a> and <span> elements of a document

ElementPool ==
    { Anchor(<<"/","p","i","p","e","l","i","n","e","-","t","a","g","/","t","g">>, <<"T","G">>),
      Anchor(<<"/","p","i","p","e","l","i","n","e","-","t","a","g","/","a","s","r","/">>, <<"A","S","R">>),
      Anchor(<<"/","m","o","d","e","l","s">>, <<"A","l","l">>),
      Span(<<"p","i","p","e","l","i","n","e","-","b","a","d","g","e">>, <<" ","c","h","a","t"," ">>),
      Span(<<"t","a","g","-","p","i","p","e","l","i","n","e">>, <<"q","a">>),
      Span(<<"t","a","g">>, <<"e","n">>) }

InitPipelineTag ==
    /\ data_dir = [f \in FileNames |-> NoFile]
    /\ args \in [elements : SeqsUpTo(ElementPool, MaxElements)]
    /\ soup = NoDocument
    /\ InitCall

ExtractPipelineTagCall ==
    /\ pc = "idle"
    /\ result' = extract_pipeline_tag(args.elements)
    /\ pc' = "extract_pipeline_tag:ret"
    /\ UNCHANGED <<data_dir, args, runnerVars, scraperVars, batchVars>>

NextPipelineTag == ExtractPipelineTagCall

SpecPipelineTag == InitPipelineTag /\ [][NextPipelineTag]_vars

(***************************************************************************)
(* scrape(model_id, output) and compare_model on the file it saved         *)
(***************************************************************************)
\* The --output option of scrape: not given, or a path
NoOutput == [given |-> FALSE, path |-> <<>>]
Output(path) == [given |-> TRUE, path |-> path]
OutputPaths == {NoOutput, Output(<<"o",".","j","s","o","n">>)}

\* Pages whose scores are whole numbers
PipelineDocuments ==
    { << <<TextRow(<<<<"M","M","L","U">>, <<"7","0">>>>),
            TextRow(<<<<" ","m","m","l","u"," ">>, <<"6","5","%">>>>)>> >>,
      << <<TextRow(<<<<"M","M","L","U"," ","(","5","-","s","h","o","t",")">>, <<"5","0">>>>),
            TextRow(<<<<"M","M","L","U">>, <<"7","0">>>>)>> >>,
      << <<TextRow(<<<<"M","M","L","U"," ","(","5","-","s","h","o","t",")">>, <<"5","0">>>>),
            TextRow(<<<<"g","s","m","8","k">>, <<"0">>>>),
            TextRow(<<<<"G","S","M","8","K">>, <<"7","0">>>>)>> >>,
      << <<TextRow(<<<<"L","i","c","e","n","s","e">>, <<"M","I","T">>>>),
            TextRow(<<<<"m","b","p","p">>, <<"n","/","a">>>>)>> >> }
PipelinePages == {Page(document, NoElement, NoElement) : document \in PipelineDocuments}
ScrapeOutcomes == {Raised("fetch_error")} \cup {Fetched(p) : p \in PipelinePages}

\* json.dump and json.load of a float: the same number, written here as the
\* runner part writes numbers (whole numbers as integers)
NumberOf(value) ==
    IF value.cls = "zero" THEN 0 ELSE value.sign * NatOfBits(value.m) * 2 ^ value.e

\* json.dump(data.to_dict(), f) and the "benchmarks" list json.load reads back
Persisted(d) ==
    File([i \in DOMAIN d.benchmarks |->
             [d.benchmarks[i] EXCEPT !.value = NumberOf(d.benchmarks[i].value)]])

InitPipeline ==
    /\ data_dir = [f \in FileNames |-> NoFile]
    /\ args = None
    /\ soup = NoDocument
    /\ InitCall

\* The scrape command: get_model_info, then the save to output or to
\* data/<model_id with "/" replaced by "_">.json; any exception ends the
\* command without a save. A path given with --output is not one that
\* load_reported_benchmarks reads. Each command is a process of its own.
ScrapeCall ==
    /\ Idle
    /\ \E m \in ModelIds, out \in OutputPaths, o \in ScrapeOutcomes :
          /\ args' = [model_id |-> m, output |-> out, outcome |-> o]
          /\ soup' = o.page.tables
          /\ data_dir' = IF o.kind = "ok" /\ ~out.given
                         THEN [data_dir EXCEPT ![filename(m)] =
                                  Persisted(to_dict(get_model_info(o.page, m)))]
                         ELSE data_dir
    /\ model_id' = <<>>
    /\ tasks' = <<>>
    /\ reported' = <<>>
    /\ comparisons' = <<>>
    /\ idx' = 1
    /\ calls' = <<>>
    /\ result' = None
    /\ pc' = "scrape:ret"
    /\ UNCHANGED <<rows, row, benchmarks, matched, extracted, batchVars>>

NextPipeline == ScrapeCall \/ CompareModelCall \/ CompareModelIter \/ CompareModelReturn

SpecPipeline == InitPipeline /\ [][NextPipeline]_vars

(***************************************************************************)
(* Claims about compare                                                    *)
(***************************************************************************)
Returned(op) == pc = op

\* C1: compare returns difference = actual - reported and
\* difference_pct = difference / reported * 100 when reported is not 0, and
\* difference_pct = 0 when reported is 0; reported 80, actual 74 gives -6, -7.5
\* and overclaimed, and reported 0, actual 5 gives 0 and not overclaimed.
C1_CompareArithmetic ==
    Returned("compare:ret") =>
        LET r == args.reported
            a == args.actual
            c == result
        IN  /\ c.reported_value = r /\ c.actual_value = a
            /\ c.difference = a - r
            /\ c.difference_pct.d > 0
            /\ r # 0 => c.difference_pct.n * r = c.difference * 100 * c.difference_pct.d
            /\ r = 0 => c.difference_pct.n = 0
            /\ (r = 80 /\ a = 74) =>
                  /\ c.difference = -6
                  /\ c.difference_pct = [n |-> -15, d |-> 2]
                  /\ c.is_overclaimed
            /\ (r = 0 /\ a = 5) =>
                  /\ c.difference_pct.n = 0
                  /\ ~c.is_overclaimed

C1_Witness ==
    /\ Returned("compare:ret")
    /\ args.reported = 80 /\ args.actual = 74
    /\ result.is_overclaimed

\* "reported exceeds actual by more than 5% of reported", in integers.
ExceedsByMoreThan5Pct(r, a) == (r - a) * 100 > 5 * r

\* C2 as stated: for every reported and actual value, zero and negative reported
\* values included, is_overclaimed is true exactly when the reported value exceeds
\* the actual value by more than 5% of the reported value.
C2_OverclaimedAsStated ==
    Returned("compare:ret") =>
        (result.is_overclaimed <=> ExceedsByMoreThan5Pct(args.reported, args.actual))

\* C2 as amended: is_overclaimed is true exactly when reported is not 0 and
\* (actual - reported) / reported * 100 is below -5: for a positive reported value,
\* when it exceeds actual by more than 5% of itself; for a negative reported value,
\* when actual exceeds it by more than 5% of its magnitude; never for reported 0.
C2_Overclaimed ==
    Returned("compare:ret") =>
        LET r == args.reported
            a == args.actual
        IN  /\ r > 0 => (result.is_overclaimed <=> ExceedsByMoreThan5Pct(r, a))
            /\ r = 0 => ~result.is_overclaimed
            /\ r < 0 => (result.is_overclaimed <=> (a - r) * 100 > 5 * (-r))

C2_Witness ==
    /\ Returned("compare:ret")
    /\ args.reported = -80 /\ args.actual = -74
    /\ result.is_overclaimed

(***************************************************************************)
(* Claims about compare_model                                              *)
(***************************************************************************)
Range(f) == {f[i] : i \in DOMAIN f}

TasksOf(cs) == [i \in DOMAIN cs |-> cs[i].task]

\* C3 as stated: compare_model emits no comparison for a task for which
\* run_benchmark yields no measured value (a result whose status is not a
\* completed run): the returned list has no entry for such a task.
C3_SkipsUnmeasured ==
    Returned("compare_model:ret") =>
        \A i \in DOMAIN result :
            run_benchmark(model_id, result[i].task).status = "completed"

\* C4 as stated: for every task name present in the reported data of the model,
\* compare_model requests the actual result and emits a comparison, whatever
\* task list the call was given.
C4_EveryReportedCompared ==
    Returned("compare_model:ret") =>
        \A name \in DOMAIN reported :
            /\ name \in Range(TasksOf(result))
            /\ name \in Range(TasksOf(calls))

\* C4 as amended: compare_model requests the actual result and emits a comparison
\* for exactly the reported task names that occur in the task list of the call
\* (the default list being mmlu, humaneval, mbpp); a reported task that is not in
\* the list is not compared.
C4_ReportedInListCompared ==
    Returned("compare_model:ret") =>
        /\ Range(TasksOf(result)) = DOMAIN reported \cap Range(tasks)
        /\ Range(TasksOf(calls)) = DOMAIN reported \cap Range(tasks)

C4_Witness ==
    /\ Returned("compare_model:ret")
    /\ t_gsm8k \in DOMAIN reported /\ t_gsm8k \notin Range(tasks)
    /\ t_mmlu \in DOMAIN reported /\ tasks = DefaultTasks
    /\ Len(result) = 1

InReported(task) == task \in DOMAIN reported

\* C5: the comparisons are in the order of the task list (the sub-sequence of the
\* task list restricted to the tasks found in the reported data, one comparison
\* per occurrence), and run_benchmark is awaited for those tasks in that order.
C5_TaskListOrder ==
    /\ pc = "compare_model:for" =>
          LET done == SubSeq(tasks, 1, idx - 1)
          IN  /\ TasksOf(comparisons) = SelectSeq(done, InReported)
              /\ TasksOf(calls) = SelectSeq(done, InReported)
    /\ Returned("compare_model:ret") =>
          /\ TasksOf(result) = SelectSeq(tasks, InReported)
          /\ TasksOf(calls) = SelectSeq(tasks, InReported)
          /\ \A i \in DOMAIN result : result[i].reported_value = reported[result[i].task]

C5_Witness ==
    /\ Returned("compare_model:ret")
    /\ tasks = <<t_gsm8k, t_mmlu>>
    /\ TasksOf(result) = <<t_gsm8k, t_mmlu>>
    /\ TasksOf(calls) = <<t_gsm8k, t_mmlu>>

(***************************************************************************)
(* Claims about extract_benchmarks                                         *)
(***************************************************************************)
t_mmlupro == <<"m","m","l","u","p","r","o">>
t_mmlu_pro_score == <<"m","m","l","u","-","p","r","o"," ","s","c","o","r","e">>

\* The rows of the document that make extract_benchmarks append a record of this name
RowsNamed(name) ==
    {k \in DOMAIN rows : /\ RowBody(find_all_cells(rows[k])).appended
                         /\ RowBody(find_all_cells(rows[k])).record.name = name}

\* C6: when extract_benchmarks has returned, no two records of the result have
\* the same (name, dataset), and the value of the record of a label is the
\* value of the last row of the document that carries the label.
C6_Deduplicated ==
    Returned("extract_benchmarks:ret") =>
        /\ \A i, j \in DOMAIN result :
              i # j => <<result[i].name, result[i].dataset>> # <<result[j].name, result[j].dataset>>
        /\ \A i \in DOMAIN result :
              LET last == CHOOSE k \in RowsNamed(result[i].name) :
                              \A l \in RowsNamed(result[i].name) : l <= k
              IN  result[i].value = RowBody(find_all_cells(rows[last])).record.value

\* C7: for every record of the result, the pattern that made the loop append
\* it is the first of the catalog contained in the label, every identifier of
\* the catalog that contains this pattern comes before it in the catalog, and
\* the label "mmlu-pro score" is appended at the pattern "mmlupro".
C7_LongestIdentifierFirst ==
    Returned("extract_benchmarks:ret") =>
        \A k \in DOMAIN result :
            LET hit == matched[k]
            IN  /\ \A j \in 1..(hit - 1) :
                      ~Contains(result[k].name, Lower(BENCHMARK_PATTERNS[j]))
                /\ \A j \in DOMAIN BENCHMARK_PATTERNS :
                      (j # hit /\ Contains(Lower(BENCHMARK_PATTERNS[j]),
                                           Lower(BENCHMARK_PATTERNS[hit]))) => j < hit
                /\ result[k].name = t_mmlu_pro_score => BENCHMARK_PATTERNS[hit] = t_mmlupro

HasIdentifier(label) ==
    \E i \in DOMAIN BENCHMARK_PATTERNS : Contains(label, Lower(BENCHMARK_PATTERNS[i]))

\* A row of at least 2 cells whose first cell, lowercased and trimmed, contains
\* a catalog identifier and whose second cell parses as a score
Qualifies(cells) ==
    /\ Len(cells) >= 2
    /\ HasIdentifier(Lower(Strip(cells[1])))
    /\ _parse_benchmark_value(cells[2]) # PyNone

AllZeros(digits) == \A i \in DOMAIN digits : digits[i] = "0"

\* The text is a decimal number, with or without a percent sign after it
IsDecimalNumber(a) ==
    /\ DigitsOf(a.ip \o a.fp) # <<>>
    /\ ~Contains(a.ip, <<",">>)
    /\ a.unit \in {<<>>, <<"%">>}

DenotesZero(a) == IsDecimalNumber(a) /\ AllZeros(DigitsOf(a.ip \o a.fp))

\* C9: _parse_benchmark_value returns None for every text that is not a
\* number, and returns 0 only for a text that denotes the number zero.
C9_NullUnlessNumber ==
    Returned("_parse_benchmark_value:ret") =>
        /\ ~IsDecimalNumber(args) => result = PyNone
        /\ result.cls = "zero" => DenotesZero(args)

UnitSuffixes == {<<"K">>, <<"M">>, <<"B">>, <<"k">>, <<"m">>, <<"b">>}

MultiplierOf(unit) ==
    CASE Upper(unit) = <<"K">> -> 1000
      [] Upper(unit) = <<"M">> -> 1000000
      [] Upper(unit) = <<"B">> -> 1000000000

\* A decimal number (digits, with thousands commas or not, and a fraction of
\* up to three digits or none) followed by exactly one unit suffix
IsSuffixedNumber(a) ==
    /\ DigitsOf(a.ip) # <<>>
    /\ a.fp = <<>> \/ (Len(a.fp) \in 2..4 /\ Head(a.fp) = ".")
    /\ a.ex = <<>>
    /\ a.unit \in UnitSuffixes

IsPlainInteger(a) ==
    /\ DigitsOf(a.ip) # <<>>
    /\ ~Contains(a.ip, <<",">>)
    /\ a.fp = <<>> /\ a.ex = <<>> /\ a.unit = <<>>

\* The number times the multiplier of its suffix: digits / 10^k * mult
ScaledValue(a) ==
    IntVal(SignOf(a.sign),
           MulAdd(BitsOfDigits(DigitsOf(a.ip \o a.fp)),
                  MultiplierOf(a.unit) \div Pow10(Len(DigitsOf(a.fp))), 0))

\* C10: for a decimal number followed by exactly one of K, M, B (either case,
\* surrounding whitespace, thousands commas) _parse_number returns the number
\* times 1e3, 1e6 or 1e9 as an integer; for a plain integer it returns it.
C10_SuffixScaling ==
    Returned("_parse_number:ret") =>
        /\ IsSuffixedNumber(args) => result = ScaledValue(args)
        /\ IsPlainInteger(args) =>
              result = IntVal(SignOf(args.sign), BitsOfDigits(DigitsOf(args.ip)))

(***************************************************************************)
(* Claims about _extract_num_shots                                         *)
(***************************************************************************)
t_5_shot_mmlu == <<"5","-","s","h","o","t"," ","m","m","l","u">>
t_shot_3_5_shot == <<"s","h","o","t"," ","3"," ","5","-","s","h","o","t">>

\* C11: _extract_num_shots returns the integer captured by the first of its
\* three patterns, in the order of the list, that matches anywhere in the
\* label, whatever the later patterns match and wherever they match; it
\* returns None when no pattern matches; "5-shot mmlu" gives 5, "mmlu" None.
C11_FirstPatternWins ==
    Returned("_extract_num_shots:ret") =>
        /\ (\A n \in 1..3 : ShotSearch(n, args.label) = <<>>) => result = NoneInt
        /\ \A n \in 1..3 :
              (/\ ShotSearch(n, args.label) # <<>>
               /\ \A k \in 1..(n - 1) : ShotSearch(k, args.label) = <<>>)
              => result = IntVal(1, BitsOfDigits(ShotSearch(n, args.label)))
        /\ args.label = t_5_shot_mmlu => result = IntOf(5)
        /\ args.label = t_mmlu => result = NoneInt

\* "shot 3 5-shot": the third pattern matches at the start and captures 3, the
\* first pattern matches further right and captures 5; the call returned 5.
C11_Witness ==
    /\ Returned("_extract_num_shots:ret")
    /\ args.label = t_shot_3_5_shot
    /\ ShotSearch(3, args.label) = <<"3">>
    /\ ShotSearch(1, args.label) = <<"5">>
    /\ result = IntOf(5)

(***************************************************************************)
(* Claims about batch                                                      *)
(***************************************************************************)
Succeeded(a) == a.outcome.kind = "ok"
EntryOf(a) == to_dict(get_model_info(a.outcome.page, a.model_id))

\* C12: batch is never left by a failure of get_model_info; when it has
\* returned, get_model_info was attempted for every model id given, in order,
\* the output file is written, and it holds exactly the entries of the
\* attempts that succeeded, in the order of the model ids.
C12_BatchSurvivesFailures ==
    /\ pc \in {"idle", "batch:for", "batch:ret"}
    /\ Returned("batch:ret") =>
          /\ Len(attempts) = Len(args.model_ids)
          /\ \A i \in DOMAIN attempts : attempts[i].model_id = args.model_ids[i]
          /\ output_file.written
          /\ LET ok == SelectSeq(attempts, Succeeded)
             IN  output_file.results = [i \in DOMAIN ok |-> EntryOf(ok[i])]

\* A failed attempt followed by one that succeeded, and the file written
C12_Witness ==
    /\ Returned("batch:ret")
    /\ output_file.written
    /\ \E i, j \in DOMAIN attempts :
          /\ i < j
          /\ ~Succeeded(attempts[i])
          /\ Succeeded(attempts[j])
          /\ EntryOf(attempts[j]) \in Range(output_file.results)

(***************************************************************************)
(* Claims about a missing file of reported benchmarks                      *)
(***************************************************************************)
FileMissing(m) == filename(m) \notin DOMAIN data_dir \/ ~data_dir[filename(m)].exists

\* C13: when data/<model id with "/" replaced by "_">.json does not exist,
\* load_reported_benchmarks gives the empty mapping, and compare_model
\* for that model awaits no run_benchmark and returns the empty list.
C13_MissingFileIsEmpty ==
    (pc \in {"compare_model:for", "compare_model:ret"} /\ FileMissing(model_id)) =>
        /\ load_reported_benchmarks(data_dir, model_id) = <<>>
        /\ reported = <<>>
        /\ calls = <<>>
        /\ comparisons = <<>>
        /\ Returned("compare_model:ret") => result = <<>>

\* compare_model returned for a model without file and a task list that is
\* not empty
C13_Witness ==
    /\ Returned("compare_model:ret")
    /\ FileMissing(model_id)
    /\ t_mmlu \in Range(tasks)
    /\ calls = <<>>
    /\ result = <<>>

(***************************************************************************)
(* Claims about the scale of the values                                    *)
(***************************************************************************)
\* 0 <= f <= 1
InUnitInterval(f) ==
    \/ f.cls = "zero"
    \/ f.cls = "finite" /\ f.sign = 1 /\ (Len(f.m) + f.e <= 0 \/ (f.m = <<1>> /\ f.e = 0))

WrittenAsPercentage(raw) == Contains(raw, <<"%">>)
WrittenAsFraction(raw) == ~Contains(raw, <<"%">>) /\ InUnitInterval(_parse_benchmark_value(raw))

\* C14: in the list returned by extract_benchmarks, of two records appended
\* at the same catalog pattern, one written as a percentage and one written as
\* a 0-1 fraction, both values are on the 0-1 scale or both are not.
C14_SingleScale ==
    Returned("extract_benchmarks:ret") =>
        \A i, j \in DOMAIN result :
            (/\ matched[i] = matched[j]
             /\ WrittenAsPercentage(result[i].raw_value)
             /\ WrittenAsFraction(result[j].raw_value))
            => (InUnitInterval(result[i].value) <=> InUnitInterval(result[j].value))

(***************************************************************************)
(* Claims about repeated extraction                                        *)
(***************************************************************************)
InExtraction == pc \in {"extract_benchmarks:for", "extract_benchmarks:ret"}

\* C15: two calls of extract_benchmarks on the same document return the same
\* list, whatever calls on other documents were made on the scraper before or
\* between them, and each returns what the document alone determines; no step
\* of a call changes anything but the locals of the call and its result.
C15_Idempotent ==
    /\ [](\A i, j \in DOMAIN extracted :
             /\ extracted[i].soup = extracted[j].soup => extracted[i].result = extracted[j].result
             /\ extracted[i].result = extract_benchmarks(extracted[i].soup))
    /\ [][InExtraction' => UNCHANGED <<data_dir, args, soup, runnerVars, batchVars>>]_vars

\* A document extracted twice with a call on another document in between
C15_Witness ==
    \E i, k, j \in DOMAIN extracted :
        /\ i < k /\ k < j
        /\ extracted[i].soup = extracted[j].soup
        /\ extracted[k].soup # extracted[i].soup
        /\ extracted[i].result # <<>>
        /\ extracted[k].result # <<>>
        /\ extracted[j].result = extracted[i].result

(***************************************************************************)
(* Claims about misplaced unit suffixes                                    *)
(***************************************************************************)
\* A number, with sign, fraction or exponent or without, followed by nothing
\* or by exactly one unit suffix: the texts the claim leaves aside
NumberWithOptionalSuffix(a) ==
    /\ DigitsOf(a.ip \o a.fp) # <<>>
    /\ a.unit \in UnitSuffixes \cup {<<>>}

\* C16: for a text that is neither a plain integer nor a number followed by
\* exactly one trailing K, M or B, _parse_number returns 0.
C16_ZeroUnlessTrailingSuffix ==
    (Returned("_parse_number:ret") /\ ~NumberWithOptionalSuffix(args)) => result = IntOf(0)

(***************************************************************************)
(* Claims about extract_pipeline_tag                                       *)
(***************************************************************************)
Links(elements) == {i \in DOMAIN elements : IsPipelineLink(elements[i])}
Badges(elements) == {i \in DOMAIN elements : IsPipelineBadge(elements[i])}

\* C17 as stated: extract_pipeline_tag returns the tag of the first element of
\* the document, in document order, that is a pipeline link or a pipeline
\* badge, and None when the document has neither.
C17_FirstInDocumentOrder ==
    Returned("extract_pipeline_tag:ret") =>
        LET both == Links(args.elements) \cup Badges(args.elements)
        IN  IF both = {} THEN result = NoneStr
            ELSE result = Str(TagOf(args.elements[FindFirst(args.elements, both)]))

\* C17 amended: extract_pipeline_tag returns the last segment of the href of
\* the first pipeline link of the document when the document has such a link,
\* wherever its badges are; otherwise the trimmed text of the first pipeline
\* badge; and None when the document has neither.
C17_LinkBeforeBadge ==
    Returned("extract_pipeline_tag:ret") =>
        LET links == Links(args.elements)
            badges == Badges(args.elements)
        IN  /\ links # {} =>
                  result = Str(LastSegment(args.elements[FindFirst(args.elements, links)].href))
            /\ (links = {} /\ badges # {}) =>
                  result = Str(Strip(args.elements[FindFirst(args.elements, badges)].text))
            /\ (links = {} /\ badges = {}) => result = NoneStr

\* A badge stands before a link in the document and the link's tag is returned
C17_Witness ==
    /\ Returned("extract_pipeline_tag:ret")
    /\ \E i \in Badges(args.elements), j \in Links(args.elements) :
          /\ i < j
          /\ \A k \in Links(args.elements) : j <= k
          /\ result = Str(LastSegment(args.elements[j].href))
          /\ result # Str(Strip(args.elements[i].text))

(***************************************************************************)
(* Claims about the records of a row and their order                       *)
(***************************************************************************)
\* The rows of the document, each once, in document order
RowElements(document) == Flatten([t \in DOMAIN document |-> find_all_tr(document[t])])

RECURSIVE IsSubsequence(_, _)
IsSubsequence(a, b) ==
    IF a = <<>> THEN TRUE
    ELSE IF b = <<>> THEN FALSE
    ELSE IF Head(a) = Head(b) THEN IsSubsequence(Tail(a), Tail(b))
    ELSE IsSubsequence(a, Tail(b))

\* C18: the list extract_benchmarks returns holds at most one record for each
\* row of the document, and the records stand in the document order of their
\* rows: the list is a subsequence of the list that has, for each row of the
\* document taken once in document order, the one record of the row.
C18_OneRecordPerRowInOrder ==
    Returned("extract_benchmarks:ret") =>
        IsSubsequence(result, ExtractFrom(RowElements(soup), 1))

(***************************************************************************)
(* Claims about scrape followed by compare_model                           *)
(***************************************************************************)
PersistedEntries(m) == data_dir[filename(m)].benchmarks

EntriesNamed(entries, t) == {k \in DOMAIN entries : entries[k].name = t}

MaxOf(S) == CHOOSE k \in S : \A j \in S : j <= k

\* C19: the file scrape saves has one entry for each scored row of the page,
\* named by the whole lowercased (and trimmed) label of the row; compare_model
\* returns a comparison for exactly those requested tasks, in their order, that
\* are equal to the name of an entry of the file, so an entry whose name only
\* contains the task gives none, and the reported value of the comparison is
\* the value of the last entry of the file with that name.
C19_ExactKeyLastWins ==
    /\ (pc = "scrape:ret" /\ args.outcome.kind = "ok" /\ ~args.output.given) =>
          LET rs == RowElements(soup)
              scored == SelectSeq([i \in DOMAIN rs |-> find_all_cells(rs[i])], Qualifies)
              entries == PersistedEntries(args.model_id)
          IN  /\ data_dir[filename(args.model_id)].exists
              /\ Len(entries) = Len(scored)
              /\ \A i \in DOMAIN entries : entries[i].name = Lower(Strip(scored[i][1]))
    /\ Returned("compare_model:ret") =>
          LET entries == PersistedEntries(model_id)
              IsNamed(t) == EntriesNamed(entries, t) # {}
              found == SelectSeq(tasks, IsNamed)
          IN  /\ Len(result) = Len(found)
              /\ \A i \in DOMAIN found :
                    /\ result[i].task = found[i]
                    /\ result[i].reported_value =
                          entries[MaxOf(EntriesNamed(entries, found[i]))].value

\* compare_model was asked for mmlu and gsm8k on a saved file with an entry
\* "mmlu (5-shot)", none named "mmlu", and two entries "gsm8k" of values 0 and
\* 70: the one comparison is that of gsm8k against 70.
C19_Witness ==
    /\ Returned("compare_model:ret")
    /\ tasks = <<t_mmlu, t_gsm8k>>
    /\ LET entries == PersistedEntries(model_id)
       IN  /\ Len(entries) = 3
           /\ entries[1].name = t_mmlu_5shot
           /\ entries[2].name = t_gsm8k /\ entries[2].value = 0
           /\ entries[3].name = t_gsm8k /\ entries[3].value = 70
    /\ Len(result) = 1
    /\ result[1].task = t_gsm8k
    /\ result[1].reported_value = 70

====
